---- MODULE Spec2Model ----
(***************************************************************************)
(* Reminder scheduling and delivery engine of the Telegram reminder bot:   *)
(* the Reminder model (src/unnamed/part_012, required by the code as       *)
(* database/models/Reminder), the SchedulerService                         *)
(* (src/src/services/schedulerService.js) and the handlers that snooze,    *)
(* complete and delete reminders.                                          *)
(*                                                                         *)
(* Instants are whole minutes since 2025-01-01 00:00 UTC.  A reminder      *)
(* document loaded in memory is kept apart from the stored record: save()  *)
(* writes only the paths the holder of the document modified.              *)
(***************************************************************************)
EXTENDS Integers, Sequences, FiniteSets, TLC

\* ------------------------------------------------------------------ bounds
MaxReminders == 1
MaxUserOps == 2
MaxSnoozes == 1
MaxTicks == 2
MaxFailures == 1
ClockSlack == 0
MaxCreateDelay == 0
MaxRecords == 4
MaxCallers == 2
MaxCalls == 7
MaxClockMoves == 3
MaxRestarts == 1
MaxStoreFaults == 1
MaxRetriesArg == 4
MaxEditCalls == 3
MaxReplies == 1
MaxAttempts == 7
RetryLimit == 5
BatchLoad == 11
BatchMinutes == 1
HistoryLoad == 8
MaxHistoryFailures == 2

\* ------------------------------------------------------- program constants
MinutesPerDay == 1440
HistoryCap == 10
ConcurrencyLimit == 10
CallbackSnoozeMinutes == 10
MaxTimeoutMinutes == 35791     \* setTimeout delay limit 2^31-1 ms, in whole minutes

\* ---------------------------------------------------------------- calendar
\* moment's calendar arithmetic, as calculateNextRecurrence uses it.
IsLeap(y) == (y % 4 = 0) /\ ((y % 100 # 0) \/ (y % 400 = 0))

DaysInYear(y) == IF IsLeap(y) THEN 366 ELSE 365

DaysInMonth(y, m) ==
  IF m = 2 THEN (IF IsLeap(y) THEN 29 ELSE 28)
  ELSE IF m \in {4, 6, 9, 11} THEN 30 ELSE 31

RECURSIVE DaysBeforeYear(_)
DaysBeforeYear(y) == IF y <= 2025 THEN 0 ELSE DaysBeforeYear(y - 1) + DaysInYear(y - 1)

RECURSIVE DaysBeforeMonth(_, _)
DaysBeforeMonth(y, m) == IF m <= 1 THEN 0 ELSE DaysBeforeMonth(y, m - 1) + DaysInMonth(y, m - 1)

\* day number (0 = 2025-01-01) of a calendar date
YMDToDay(y, m, d) == DaysBeforeYear(y) + DaysBeforeMonth(y, m) + (d - 1)

RECURSIVE YearOfDay(_, _)
YearOfDay(n, y) == IF n < DaysInYear(y) THEN <<y, n>> ELSE YearOfDay(n - DaysInYear(y), y + 1)

RECURSIVE MonthOfDay(_, _, _)
MonthOfDay(n, y, m) ==
  IF n < DaysInMonth(y, m) THEN <<m, n + 1>> ELSE MonthOfDay(n - DaysInMonth(y, m), y, m + 1)

\* calendar date <<year, month, day>> of a day number
DayToYMD(n) ==
  LET yr == YearOfDay(n, 2025)
      md == MonthOfDay(yr[2], yr[1], 1)
  IN  <<yr[1], md[1], md[2]>>

Min(a, b) == IF a <= b THEN a ELSE b

\* moment#add(n, 'months'): the month moves, the day of the month is clamped
\* to the length of the target month.
AddMonths(ymd, n) ==
  LET idx == (ymd[1] * 12 + (ymd[2] - 1)) + n
      y2  == idx \div 12
      m2  == (idx % 12) + 1
  IN  <<y2, m2, Min(ymd[3], DaysInMonth(y2, m2))>>

\* ------------------------------------------------------------- time zones
\* Two of the zones the bot offers: Asia/Riyadh (UTC+3 all year) and
\* Asia/Beirut (UTC+2, UTC+3 between the last Sundays of March and October;
\* the 2025 period).
Zones == {"Asia/Riyadh", "Asia/Beirut"}

StdOffset(tz) == IF tz = "Asia/Riyadh" THEN 180 ELSE 120
DstOffset(tz) == IF tz = "Asia/Riyadh" THEN 180 ELSE 180
DstStartUtc(tz) == YMDToDay(2025, 3, 30) * MinutesPerDay - StdOffset(tz)
DstEndUtc(tz) == YMDToDay(2025, 10, 26) * MinutesPerDay - DstOffset(tz)

UtcOffset(tz, u) ==
  IF u >= DstStartUtc(tz) /\ u < DstEndUtc(tz) THEN DstOffset(tz) ELSE StdOffset(tz)

\* wall-clock minutes (since 2025-01-01 00:00 local) of instant u in zone tz
ToLocal(tz, u) == u + UtcOffset(tz, u)

\* the instant of a wall-clock time; a wall-clock time skipped by the change
\* to summer time is moved forward by the skipped hour, a repeated one is
\* its first occurrence (moment-timezone).
FromLocal(tz, l) ==
  LET uDst == l - DstOffset(tz)
      uStd == l - StdOffset(tz)
  IN  IF UtcOffset(tz, uDst) = DstOffset(tz) THEN uDst ELSE uStd

\* --------------------------------------------------------- reminder model
Patterns == {"daily", "weekly", "monthly", "yearly"}

\* calculateNextRecurrence: the scheduled time moved by recurringInterval
\* units of the pattern on the wall clock of the reminder's zone; 0 stands
\* for null (not recurring, or a pattern the switch does not know).
calculateNextRecurrence(r) ==
  IF ~r.isRecurring \/ r.recurringPattern \notin Patterns THEN 0
  ELSE
    LET current == ToLocal(r.timezone, r.scheduledTime)
        day     == current \div MinutesPerDay
        tod     == current % MinutesPerDay
        n       == r.recurringInterval
        nextDay ==
          CASE r.recurringPattern = "daily"   -> day + n
            [] r.recurringPattern = "weekly"  -> day + 7 * n
            [] r.recurringPattern = "monthly" ->
                 LET d2 == AddMonths(DayToYMD(day), n) IN YMDToDay(d2[1], d2[2], d2[3])
            [] r.recurringPattern = "yearly"  ->
                 LET d2 == AddMonths(DayToYMD(day), 12 * n) IN YMDToDay(d2[1], d2[2], d2[3])
    IN  FromLocal(r.timezone, nextDay * MinutesPerDay + tod)

\* A new Reminder document with the schema's defaults.  maxRecurrences 0,
\* completedAt -1 and snoozeUntil -1 stand for unset.
NewReminder(uid, sched, orig, rec, pat, ival, maxRec, cnt, prio, tz) ==
  [ userId |-> uid,
    scheduledTime |-> sched,
    originalScheduledTime |-> orig,
    isRecurring |-> rec,
    recurringPattern |-> pat,
    recurringInterval |-> ival,
    maxRecurrences |-> maxRec,
    recurrenceCount |-> cnt,
    isActive |-> TRUE,
    isCompleted |-> FALSE,
    completedAt |-> -1,
    isSnoozed |-> FALSE,
    snoozeUntil |-> -1,
    snoozeCount |-> 0,
    priority |-> prio,
    timezone |-> tz,
    deletedAt |-> -1,
    executionHistory |-> <<>> ]

\* document.save(): only the paths whose value the holder of the document
\* changed are written to the stored record.
ModifiedPaths(old, new) == {f \in DOMAIN new : new[f] # old[f]}

SaveChanges(st, id, old, new) ==
  [st EXCEPT ![id] =
     [f \in DOMAIN st[id] |-> IF f \in ModifiedPaths(old, new) THEN new[f] ELSE st[id][f]]]

\* snooze(minutes) without the write of isSnoozed
snoozeKeepsFlag(doc, minutes, t) ==
  [doc EXCEPT !.snoozeUntil = t + minutes, !.snoozeCount = doc.snoozeCount + 1]

\* snooze(minutes) making the reminder active again
snoozeReactivating(doc, minutes, t) ==
  [doc EXCEPT !.isSnoozed = TRUE,
              !.snoozeUntil = t + minutes,
              !.snoozeCount = doc.snoozeCount + 1,
              !.isActive = TRUE]

\* snooze(minutes) at instant t: the document after the assignments
snooze(doc, minutes, t) ==
  [doc EXCEPT !.isSnoozed = TRUE,
              !.snoozeUntil = t + minutes,
              !.snoozeCount = doc.snoozeCount + 1]

\* complete() without the write of isActive
completeKeepsActive(doc, t) == [doc EXCEPT !.isCompleted = TRUE, !.completedAt = t]

\* complete() at instant t
complete(doc, t) ==
  [doc EXCEPT !.isCompleted = TRUE, !.completedAt = t, !.isActive = FALSE]

LastN(s, n) == IF Len(s) <= n THEN s ELSE SubSeq(s, Len(s) - n + 1, Len(s))

\* addExecutionHistory: the document after the push and the slice(-10)
addExecutionHistory(doc, status, error) ==
  [doc EXCEPT !.executionHistory =
     LastN(Append(doc.executionHistory, [status |-> status, error |-> error]), HistoryCap)]

\* the save of addExecutionHistory writing the whole in-memory document
SaveHistoryWhole(st, id, doc, status, error) ==
  [st EXCEPT ![id] = addExecutionHistory(doc, status, error)]

\* the save of addExecutionHistory also deactivating a reminder that failed
SaveHistoryDeactivating(st, id, doc, status, error) ==
  [st EXCEPT ![id].executionHistory = Append(@, [status |-> status, error |-> error]),
             ![id].isActive = IF status = "failed" THEN FALSE ELSE @]

\* its save: a push alone is sent as an atomic $push on the stored array;
\* once the array was reassigned by the slice the whole array is set.
SaveHistory(st, id, doc, status, error) ==
  IF Len(doc.executionHistory) >= HistoryCap
  THEN [st EXCEPT ![id].executionHistory = addExecutionHistory(doc, status, error).executionHistory]
  ELSE [st EXCEPT ![id].executionHistory =
          Append(st[id].executionHistory, [status |-> status, error |-> error])]

\* createNextRecurrence: "none" (no successor, nothing saved), "max" (the
\* maximum is reached: the document is deactivated and saved) or "next"
\* (a successor document is saved).
RecurrenceOutcome(doc) ==
  IF ~doc.isRecurring THEN "none"
  ELSE IF calculateNextRecurrence(doc) = 0 THEN "none"
  ELSE IF doc.maxRecurrences # 0 /\ doc.recurrenceCount >= doc.maxRecurrences THEN "max"
  ELSE "next"

\* createNextRecurrence with the recurrenceCount carried over
createNextRecurrenceSameCount(doc) ==
  NewReminder(doc.userId, calculateNextRecurrence(doc), doc.originalScheduledTime,
              doc.isRecurring, doc.recurringPattern, doc.recurringInterval,
              doc.maxRecurrences, doc.recurrenceCount, doc.priority, doc.timezone)

\* createNextRecurrence: the successor document
\* createNextRecurrence with the successor's own time as its original time
createNextRecurrenceNewOrigin(doc) ==
  NewReminder(doc.userId, calculateNextRecurrence(doc), calculateNextRecurrence(doc),
              doc.isRecurring, doc.recurringPattern, doc.recurringInterval,
              doc.maxRecurrences, doc.recurrenceCount + 1, doc.priority, doc.timezone)

createNextRecurrence(doc) ==
  NewReminder(doc.userId, calculateNextRecurrence(doc), doc.originalScheduledTime,
              doc.isRecurring, doc.recurringPattern, doc.recurringInterval,
              doc.maxRecurrences, doc.recurrenceCount + 1, doc.priority, doc.timezone)

\* shouldExecute() at instant t
shouldExecute(r, t) ==
  IF ~r.isActive \/ r.isCompleted THEN FALSE
  ELSE IF r.isSnoozed /\ t < r.snoozeUntil THEN FALSE
  ELSE t >= r.scheduledTime

\* the filter with scheduledTime < t in place of $lte
MatchesReadyStrict(r, t) ==
  /\ r.isActive = TRUE
  /\ r.isCompleted = FALSE
  /\ r.scheduledTime < t
  /\ \/ r.isSnoozed = FALSE
     \/ r.isSnoozed = TRUE /\ r.snoozeUntil # -1 /\ r.snoozeUntil <= t

\* the filter matching only the reminders scheduled for the minute t
MatchesReadyThisMinute(r, t) ==
  /\ r.isActive = TRUE
  /\ r.isCompleted = FALSE
  /\ r.scheduledTime = t
  /\ \/ r.isSnoozed = FALSE
     \/ r.isSnoozed = TRUE /\ r.snoozeUntil # -1 /\ r.snoozeUntil <= t

\* The filter of findReadyToExecute at instant t.  A comparison with an
\* unset snoozeUntil matches nothing.
MatchesReady(r, t) ==
  /\ r.isActive = TRUE
  /\ r.isCompleted = FALSE
  /\ r.scheduledTime <= t
  /\ \/ r.isSnoozed = FALSE
     \/ r.isSnoozed = TRUE /\ r.snoozeUntil # -1 /\ r.snoozeUntil <= t

\* sort({priority: -1, scheduledTime: 1}): priority is stored as a string,
\* so the order is the order of the strings.
PriorityKey(p) ==
  CASE p = "high" -> 1 [] p = "low" -> 2 [] p = "normal" -> 3 [] p = "urgent" -> 4

SortsBefore(st, a, b) ==
  \/ PriorityKey(st[a].priority) > PriorityKey(st[b].priority)
  \/ /\ st[a].priority = st[b].priority
     /\ \/ st[a].scheduledTime < st[b].scheduledTime
        \/ st[a].scheduledTime = st[b].scheduledTime /\ a < b

RECURSIVE SortIds(_, _)
SortIds(st, ids) ==
  IF ids = {} THEN <<>>
  ELSE LET first == CHOOSE a \in ids : \A b \in ids \ {a} : SortsBefore(st, a, b)
       IN  <<first>> \o SortIds(st, ids \ {first})

\* findReadyToExecute at instant t: the ids of the documents found, in order
findReadyToExecute(st, t) ==
  SortIds(st, {i \in DOMAIN st : MatchesReady(st[i], t)})

\* chunkArray
RECURSIVE chunkArray(_, _)
chunkArray(array, size) ==
  IF Len(array) = 0 THEN <<>>
  ELSE IF Len(array) <= size THEN <<array>>
  ELSE <<SubSeq(array, 1, size)>> \o chunkArray(SubSeq(array, size + 1, Len(array)), size)

\* ---------------------------------------------------------- circuit breaker
\* new CircuitBreaker(name, threshold, timeout); lastFailureTime -1 is null
CircuitBreaker(threshold, timeout) ==
  [ threshold |-> threshold, timeout |-> timeout, failureCount |-> 0,
    lastFailureTime |-> -1, state |-> "CLOSED" ]

\* the process-global breakers, as constructed when the module is loaded
NewCircuitBreakers ==
  [ telegram |-> CircuitBreaker(5, 30000),
    database |-> CircuitBreaker(3, 60000),
    external |-> CircuitBreaker(3, 120000) ]

\* the test of execute() on an OPEN breaker at Date.now() = t
CoolDownElapsed(cb, t) == t - cb.lastFailureTime > cb.timeout

\* execute() up to the call of the operation: "reject" when it throws at once
Admission(cb, t) ==
  IF cb.state = "OPEN" /\ ~CoolDownElapsed(cb, t) THEN "reject" ELSE "admit"

\* the breaker after the first statement of execute() at Date.now() = t
AfterAdmission(cb, t) ==
  IF cb.state = "OPEN" /\ CoolDownElapsed(cb, t) THEN [cb EXCEPT !.state = "HALF_OPEN"] ELSE cb

onSuccess(cb) == [cb EXCEPT !.failureCount = 0, !.state = "CLOSED"]

\* onFailure opening one failure after the threshold
onFailureLate(cb, t) ==
  [cb EXCEPT !.failureCount = cb.failureCount + 1,
             !.lastFailureTime = t,
             !.state = IF cb.failureCount + 1 > cb.threshold THEN "OPEN" ELSE cb.state]

\* onFailure at Date.now() = t
\* onFailure without the time stamp of the failure
onFailureUnstamped(cb, t) ==
  [cb EXCEPT !.failureCount = @ + 1,
             !.state = IF cb.failureCount + 1 >= cb.threshold THEN "OPEN" ELSE cb.state]

onFailure(cb, t) ==
  [cb EXCEPT !.failureCount = cb.failureCount + 1,
             !.lastFailureTime = t,
             !.state = IF cb.failureCount + 1 >= cb.threshold THEN "OPEN" ELSE cb.state]


\* ------------------------------------------------------------------ state
VARIABLES
  now,          \* the clock, in minutes
  store,        \* the reminders collection: id -> stored record (ids 1, 2, ...)
  users,        \* the users collection: id -> [isActive, isBanned]
  isRunning,    \* SchedulerService.isRunning
  botInstance,  \* SchedulerService.botInstance is set
  jobs,         \* SchedulerService.jobs: the set of [id, h], h the timer handle kept for id
  timers,       \* armed setTimeout timers: [rid, h, fireAt, doc]
  timerSeq,     \* timer handles handed out so far
  tasks,        \* executeReminder invocations in flight
  ticks,        \* checkAndExecuteReminders invocations in flight, by tick number
  lastPollAt,   \* the minute of the last cron tick
  stats,        \* SchedulerService.stats
  failures,     \* sends the Notifier has rejected so far
  userOps,      \* snooze, complete and delete requests handled so far
  parentOf,     \* history: id -> the record whose firing created it (0: created by the user)
  sends,        \* history: id -> the successful sendMessage calls for it, in order
  softDeleted,  \* history: the ids soft-deleted through a delete handler
  lastSnooze,   \* history: id -> the last snooze request [at, minutes] (at = -1: never)
  circuitBreakers, \* globalErrorHandler circuitBreakers: name -> CircuitBreaker
  clockMs,      \* Date.now() as the breakers read it, in ms since the start
  calls,        \* execute() calls whose operation is in flight
  callStats,    \* history: execute() calls started, rejected at once, clock moves
  outcomes,     \* history: name -> the outcomes of the last operations that settled
  restarts,     \* process restarts so far
  storeFaults,  \* saves the store has rejected so far
  rejectLog,    \* history: the ids of the reminders whose send was rejected, in order
  cleared,      \* history: the handles of the timers cancelReminder cleared while armed
  retry,        \* the retryOperation call under way: its loop variables and its invocations
  msg,          \* one Telegram message: what it shows, the update context, messageCache
  edit          \* the safeEditMessageText call under way

vars == <<now, store, users, isRunning, botInstance, jobs, timers, timerSeq, tasks,
          ticks, lastPollAt, stats, failures, userOps, parentOf, sends, softDeleted, lastSnooze,
          circuitBreakers, clockMs, calls, callStats, outcomes, restarts, storeFaults, rejectLog, cleared,
          retry, msg, edit>>

auxVars == <<retry, msg, edit>>
breakerVars == <<circuitBreakers, clockMs, calls, callStats, outcomes, auxVars>>
faultVars == <<restarts, storeFaults, rejectLog, cleared>>
schedVars == <<isRunning, botInstance, breakerVars, faultVars>>
histVars == <<parentOf, sends, softDeleted, lastSnooze>>

Ids == DOMAIN store

NoTick == [running |-> FALSE, batches |-> <<>>, next |-> 0, docs |-> <<>>,
           sentOk |-> <<>>, failed |-> {}]

By(kind, n) == [kind |-> kind, n |-> n]

\* the check without its isBanned half
UserActive(uid) == users[uid].isActive

UserOk(uid) == users[uid].isActive /\ ~users[uid].isBanned

\* The start of executeReminder(doc), up to its first await: nothing for a
\* user who is inactive or banned; otherwise the message is handed to the
\* Notifier (without a bot instance nothing is sent and the completion
\* follows).  live, early, gone and epoch record the stored record at this moment.
DispatchTasks(st, rid, doc, by) ==
  IF ~UserOk(doc.userId) THEN {}
  ELSE {[ rid |-> rid, by |-> by, doc |-> doc,
          pc |-> IF botInstance THEN "sending" ELSE "completion",
          live |-> st[rid].isActive /\ ~st[rid].isCompleted,
          early |-> st[rid].isSnoozed /\ now < st[rid].snoozeUntil,
          gone |-> rid \in softDeleted,
          epoch |-> st[rid].snoozeCount ]}

\* setTimeout(callback, delay): a delay above 2^31-1 ms is replaced by 1 ms
TimerFireAt(t, sched) == IF sched - t > MaxTimeoutMinutes THEN t ELSE sched

\* cancelReminder(id): clears the timer kept in jobs for id
cancelReminderTimers(tm, jb, id) == {x \in tm : [id |-> x.rid, h |-> x.h] \notin jb \/ x.rid # id}

cancelReminderJobs(jb, id) == {j \in jb : j.id # id}

\* cancelReminder(id): the value it returns
cancelReminder(jb, id) == \E j \in jb : j.id = id


\* The scheduler is initialised at 2025-03-28 06:00 UTC.
StartInstant == YMDToDay(2025, 3, 28) * MinutesPerDay + 360

\* ---------------------------------------------------------------- actions
\* scheduleReminder(doc) for the document just saved under id: an overdue
\* reminder is executed at once, any other gets a timer kept in jobs.
ScheduleEffects(st, id, doc) ==
  IF doc.scheduledTime < now
  THEN /\ tasks' = tasks \cup DispatchTasks(st, id, doc, By("direct", 0))
       /\ UNCHANGED <<timers, jobs, timerSeq>>
  ELSE /\ timers' = timers \cup {[rid |-> id, h |-> timerSeq + 1,
                                  fireAt |-> TimerFireAt(now, doc.scheduledTime), doc |-> doc]}
       /\ jobs' = cancelReminderJobs(jobs, id) \cup {[id |-> id, h |-> timerSeq + 1]}
       /\ timerSeq' = timerSeq + 1
       /\ UNCHANGED tasks

\* remind.js handleConfirmationCallback('confirm'): the reminder is saved
\* and handed to scheduleReminder.  The time was parsed earlier in the
\* dialogue, so it may lie before or after the instant of the confirmation.
CreateReminder(uid, lead, rec, pat, ival, maxRec, prio, tz) ==
  LET id  == Len(store) + 1
      doc == NewReminder(uid, now + lead, now + lead, rec, pat, ival, maxRec, 0, prio, tz)
  IN  /\ Len(store) < MaxReminders
      /\ now <= StartInstant + MaxCreateDelay
      /\ store' = Append(store, doc)
      /\ parentOf' = Append(parentOf, 0)
      /\ sends' = Append(sends, <<>>)
      /\ lastSnooze' = Append(lastSnooze, [at |-> -1, minutes |-> 0])
      /\ ScheduleEffects(store', id, doc)
      /\ UNCHANGED <<now, users, schedVars, ticks, lastPollAt, stats, failures, userOps, softDeleted>>

\* the callback of the timer set by scheduleReminder fires
TimerFires(tm) ==
  /\ tm \in timers
  /\ now >= tm.fireAt
  /\ timers' = timers \ {tm}
  /\ LET started == DispatchTasks(store, tm.rid, tm.doc, By("timer", tm.h))
     IN  /\ tasks' = tasks \cup started
         /\ jobs' = IF started = {} THEN cancelReminderJobs(jobs, tm.rid) ELSE jobs
  /\ UNCHANGED <<now, store, users, schedVars, timerSeq, ticks, lastPollAt, stats,
                 failures, userOps, histVars>>

SeqRange(q) == {q[i] : i \in DOMAIN q}

FreeTick == CHOOSE k \in 1..MaxTicks : ~ticks[k].running /\ \A j \in 1..(k - 1) : ticks[j].running

\* a cron tick: checkAndExecuteReminders up to the answer of the query
PollTick ==
  /\ isRunning
  /\ lastPollAt < now
  /\ \E k \in 1..MaxTicks : ~ticks[k].running
  /\ lastPollAt' = now
  /\ LET ready == findReadyToExecute(store, now)
     IN  /\ Len(ready) > 0
         /\ ticks' = [ticks EXCEPT ![FreeTick] =
                          [running |-> TRUE,
                           batches |-> chunkArray(ready, ConcurrencyLimit),
                           next |-> 1,
                           docs |-> [i \in SeqRange(ready) |-> store[i]],
                          sentOk |-> [i \in SeqRange(ready) |-> 0],
                          failed |-> {}]]
  /\ UNCHANGED <<now, store, users, schedVars, jobs, timers, timerSeq, tasks, stats,
                 failures, userOps, histVars>>

\* checkAndExecuteReminders giving up at the first reminder that failed
TickBatchAborting(k) ==
  /\ ticks[k].running
  /\ \A t \in tasks : t.by # By("poll", k)
  /\ IF ticks[k].next > Len(ticks[k].batches) \/ ticks[k].failed # {}
     THEN /\ ticks' = [ticks EXCEPT ![k] = NoTick]
          /\ UNCHANGED tasks
     ELSE /\ ticks' = [ticks EXCEPT ![k].next = @ + 1]
          /\ tasks' = tasks \cup
               UNION {DispatchTasks(store, rid, ticks[k].docs[rid], By("poll", k)) :
                        rid \in SeqRange(ticks[k].batches[ticks[k].next])}
  /\ UNCHANGED <<now, store, users, schedVars, jobs, timers, timerSeq, lastPollAt, stats,
                 failures, userOps, histVars>>

\* checkAndExecuteReminders after the query: once every executeReminder of
\* the previous batch has settled, the next batch is started, and after the
\* last batch the tick ends.
TickBatch(k) ==
  /\ ticks[k].running
  /\ \A t \in tasks : t.by # By("poll", k)
  /\ IF ticks[k].next > Len(ticks[k].batches)
     THEN /\ ticks' = [ticks EXCEPT ![k] = NoTick]
          /\ UNCHANGED tasks
     ELSE /\ ticks' = [ticks EXCEPT ![k].next = @ + 1]
          /\ tasks' = tasks \cup
               UNION {DispatchTasks(store, rid, ticks[k].docs[rid], By("poll", k)) :
                        rid \in SeqRange(ticks[k].batches[ticks[k].next])}
  /\ UNCHANGED <<now, store, users, schedVars, jobs, timers, timerSeq, lastPollAt, stats,
                 failures, userOps, histVars>>

Replace(t, t2) == (tasks \ {t}) \cup {t2}

\* sendMessage resolves: sendReminderMessage logs 'sent'
SendSucceeds(t) ==
  /\ t \in tasks /\ t.pc = "sending"
  /\ store' = SaveHistory(store, t.rid, t.doc, "sent", "none")
  /\ tasks' = Replace(t, [t EXCEPT !.pc = "completion",
                                   !.doc = addExecutionHistory(t.doc, "sent", "none")])
  /\ sends' = [sends EXCEPT ![t.rid] = Append(@, [live |-> t.live, epoch |-> t.epoch])]
  /\ ticks' = IF t.by.kind = "poll"
              THEN [ticks EXCEPT ![t.by.n].sentOk[t.rid] = @ + 1] ELSE ticks
  /\ UNCHANGED <<now, users, schedVars, jobs, timers, timerSeq, lastPollAt, stats, failures, userOps,
                 parentOf, softDeleted, lastSnooze>>

ErrorClasses == {"transient", "permanent"}

\* sendMessage rejects: sendReminderMessage logs 'failed' and rethrows
\* (limit bounds the rejections of one run)
SendRejects(t, class, limit) ==
  /\ t \in tasks /\ t.pc = "sending"
  /\ failures < limit
  /\ failures' = failures + 1
  /\ rejectLog' = Append(rejectLog, t.rid)
  /\ store' = SaveHistory(store, t.rid, t.doc, "failed", class)
  /\ tasks' = Replace(t, [t EXCEPT !.pc = "catch",
                                   !.doc = addExecutionHistory(t.doc, "failed", class)])
  /\ ticks' = IF t.by.kind = "poll"
              THEN [ticks EXCEPT ![t.by.n].failed = @ \cup {t.rid}] ELSE ticks
  /\ UNCHANGED <<now, users, isRunning, botInstance, breakerVars, restarts, storeFaults, cleared,
                 jobs, timers, timerSeq, lastPollAt, stats, userOps, histVars>>

SendFails(t, class) == SendRejects(t, class, MaxFailures)

LastError(doc) == doc.executionHistory[Len(doc.executionHistory)].error

\* the end of an executeReminder invocation: the timer callback then drops
\* the id from jobs
EndTask(t) ==
  /\ tasks' = tasks \ {t}
  /\ jobs' = IF t.by.kind = "timer" THEN cancelReminderJobs(jobs, t.rid) ELSE jobs

\* the catch of executeReminder: 'failed' is logged again and the failure counted
CatchFailure(t) ==
  /\ t \in tasks /\ t.pc = "catch"
  /\ store' = SaveHistory(store, t.rid, t.doc, "failed", LastError(t.doc))
  /\ stats' = [stats EXCEPT !.totalExecuted = @ + 1, !.failedExecutions = @ + 1]
  /\ EndTask(t)
  /\ UNCHANGED <<now, users, schedVars, timers, timerSeq, ticks, lastPollAt, failures, userOps, histVars>>

\* handleReminderCompletion up to its first save: of the successor, of the
\* deactivation at the maximum, or (not recurring) of complete()
HandleCompletion(t) ==
  /\ t \in tasks /\ t.pc = "completion"
  /\ LET outcome == RecurrenceOutcome(t.doc)
     IN  CASE outcome = "next" ->
                /\ Len(store) < MaxRecords
                /\ store' = Append(store, createNextRecurrence(t.doc))
                /\ parentOf' = Append(parentOf, t.rid)
                /\ sends' = Append(sends, <<>>)
                /\ lastSnooze' = Append(lastSnooze, [at |-> -1, minutes |-> 0])
                /\ tasks' = Replace(t, [t EXCEPT !.pc = "complete"])
           [] outcome = "max" ->
                /\ store' = SaveChanges(store, t.rid, t.doc, [t.doc EXCEPT !.isActive = FALSE])
                /\ tasks' = Replace(t, [t EXCEPT !.pc = "complete", !.doc.isActive = FALSE])
                /\ UNCHANGED <<parentOf, sends, lastSnooze>>
           [] outcome = "none" ->
                /\ store' = SaveChanges(store, t.rid, t.doc, complete(t.doc, now))
                /\ tasks' = Replace(t, [t EXCEPT !.pc = "finish", !.doc = complete(t.doc, now)])
                /\ UNCHANGED <<parentOf, sends, lastSnooze>>
  /\ UNCHANGED <<now, users, schedVars, jobs, timers, timerSeq, ticks, lastPollAt, stats,
                 failures, userOps, softDeleted>>

\* handleReminderCompletion: complete() of the fired reminder
CompleteFired(t) ==
  /\ t \in tasks /\ t.pc = "complete"
  /\ store' = SaveChanges(store, t.rid, t.doc, complete(t.doc, now))
  /\ tasks' = Replace(t, [t EXCEPT !.pc = "finish", !.doc = complete(t.doc, now)])
  /\ UNCHANGED <<now, users, schedVars, jobs, timers, timerSeq, ticks, lastPollAt, stats,
                 failures, userOps, histVars>>

\* the rest of executeReminder: the user's counter and the statistics
FinishExecution(t) ==
  /\ t \in tasks /\ t.pc = "finish"
  /\ stats' = [stats EXCEPT !.totalExecuted = @ + 1, !.successfulExecutions = @ + 1]
  /\ EndTask(t)
  /\ UNCHANGED <<now, store, users, schedVars, timers, timerSeq, ticks, lastPollAt, failures, userOps,
                 histVars>>


\* callbacks handleSnoozeCallback: findById, snooze(10)
SnoozeCallback(rid) ==
  /\ rid \in Ids
  /\ userOps < MaxUserOps
  /\ userOps' = userOps + 1
  /\ store[rid].snoozeCount < MaxSnoozes
  /\ store' = SaveChanges(store, rid, store[rid], snooze(store[rid], CallbackSnoozeMinutes, now))
  /\ lastSnooze' = [lastSnooze EXCEPT ![rid] = [at |-> now, minutes |-> CallbackSnoozeMinutes]]
  /\ UNCHANGED <<now, users, schedVars, jobs, timers, timerSeq, tasks, ticks, lastPollAt,
                 stats, failures, parentOf, sends, softDeleted>>

\* parseInt of a key of the /snooze duration keyboard: its leading digits
parseInt(duration) ==
  CASE duration = "5min" -> 5
    [] duration = "15min" -> 15
    [] duration = "30min" -> 30
    [] duration = "1hour" -> 1
    [] duration = "2hours" -> 2
    [] duration = "4hours" -> 4
    [] duration = "1day" -> 1

\* /snooze handleSnoozeConfirmation('confirm', duration): only a reminder
\* that is active and not completed is found
SnoozeCommand(rid, duration) ==
  LET minutes == parseInt(duration) IN
  /\ rid \in Ids
  /\ userOps < MaxUserOps
  /\ userOps' = userOps + 1
  /\ store[rid].isActive /\ ~store[rid].isCompleted
  /\ store[rid].snoozeCount < MaxSnoozes
  /\ store' = SaveChanges(store, rid, store[rid], snooze(store[rid], minutes, now))
  /\ lastSnooze' = [lastSnooze EXCEPT ![rid] = [at |-> now, minutes |-> minutes]]
  /\ UNCHANGED <<now, users, schedVars, jobs, timers, timerSeq, tasks, ticks, lastPollAt,
                 stats, failures, parentOf, sends, softDeleted>>

\* callbacks handleCompleteCallback: findById, complete()
CompleteCallback(rid) ==
  /\ rid \in Ids
  /\ userOps < MaxUserOps
  /\ userOps' = userOps + 1
  /\ store' = SaveChanges(store, rid, store[rid], complete(store[rid], now))
  /\ UNCHANGED <<now, users, schedVars, jobs, timers, timerSeq, tasks, ticks, lastPollAt,
                 stats, failures, histVars>>

\* /complete handleCompleteConfirmation('confirm'): only a reminder that is
\* active and not completed is found
CompleteCommand(rid) ==
  /\ rid \in Ids
  /\ userOps < MaxUserOps
  /\ userOps' = userOps + 1
  /\ store[rid].isActive /\ ~store[rid].isCompleted
  /\ store' = SaveChanges(store, rid, store[rid], complete(store[rid], now))
  /\ UNCHANGED <<now, users, schedVars, jobs, timers, timerSeq, tasks, ticks, lastPollAt,
                 stats, failures, histVars>>

\* /delete handleDeleteConfirmation('confirm'): soft delete, then cancelReminder
DeleteConfirmation(rid) ==
  /\ rid \in Ids
  /\ userOps < MaxUserOps
  /\ userOps' = userOps + 1
  /\ store' = SaveChanges(store, rid, store[rid],
                          [store[rid] EXCEPT !.isActive = FALSE, !.deletedAt = now])
  /\ timers' = cancelReminderTimers(timers, jobs, rid)
  /\ jobs' = cancelReminderJobs(jobs, rid)
  /\ cleared' = cleared \cup {tm.h : tm \in timers \ cancelReminderTimers(timers, jobs, rid)}
  /\ softDeleted' = softDeleted \cup {rid}
  /\ UNCHANGED <<now, users, isRunning, botInstance, breakerVars, restarts, storeFaults, rejectLog,
                 timerSeq, tasks, ticks, lastPollAt, stats, failures, parentOf, sends, lastSnooze>>

\* callbacks handleDeleteCallback: soft delete
DeleteCallback(rid) ==
  /\ rid \in Ids
  /\ userOps < MaxUserOps
  /\ userOps' = userOps + 1
  /\ store' = SaveChanges(store, rid, store[rid], [store[rid] EXCEPT !.isActive = FALSE])
  /\ softDeleted' = softDeleted \cup {rid}
  /\ UNCHANGED <<now, users, schedVars, jobs, timers, timerSeq, tasks, ticks, lastPollAt,
                 stats, failures, parentOf, sends, lastSnooze>>

\* The clock moves to a scheduled time, the end of a snooze or the due time
\* of a timer, or up to ClockSlack minutes past one.
Instants ==
  {store[i].scheduledTime : i \in Ids}
    \cup {store[i].snoozeUntil : i \in Ids}
    \cup {tm.fireAt : tm \in timers}

ClockAdvance(t) ==
  /\ t > now
  /\ \E x \in Instants, d \in 0..ClockSlack : t = x + d
  /\ now' = t
  /\ UNCHANGED <<store, users, schedVars, jobs, timers, timerSeq, tasks, ticks, lastPollAt,
                 stats, failures, userOps, histVars>>

ClockTargets == {x + d : x \in Instants, d \in 0..ClockSlack}

\* ------------------------------------------------------- retryOperation
\* the codes an operation rejects with; 0 stands for an operation that resolves
ErrorCodes == {400, 403, 429, 500}
Resolved == 0

NoRetry == [pc |-> "idle", maxRetries |-> 0, attempt |-> 0, delay |-> 0, lastError |-> Resolved,
            log |-> <<>>, thrown |-> Resolved]

\* retryOperation(operation, maxRetries) up to the first invocation
retryOperation(maxRetries) ==
  [pc |-> "attempt", maxRetries |-> maxRetries, attempt |-> 1, delay |-> 1000,
   lastError |-> Resolved, log |-> <<>>, thrown |-> Resolved]

\* one pass of the loop without the check of the codes 400 and 403
retryAttemptAnyCode(r, outcome) ==
  LET r1 == [r EXCEPT !.log = Append(@, outcome)] IN
  IF outcome = Resolved THEN [r1 EXCEPT !.pc = "returned"]
  ELSE IF r.attempt = r.maxRetries
       THEN [r1 EXCEPT !.lastError = outcome, !.pc = "thrown", !.thrown = outcome]
       ELSE [r1 EXCEPT !.lastError = outcome, !.pc = "sleep"]

\* one pass of the loop: the operation is invoked and settles with outcome
retryAttempt(r, outcome) ==
  LET r1 == [r EXCEPT !.log = Append(@, outcome)] IN
  IF outcome = Resolved THEN [r1 EXCEPT !.pc = "returned"]
  ELSE IF outcome \in {403, 400}
       THEN [r1 EXCEPT !.lastError = outcome, !.pc = "thrown", !.thrown = outcome]
  ELSE IF r.attempt = r.maxRetries
       THEN [r1 EXCEPT !.lastError = outcome, !.pc = "thrown", !.thrown = outcome]
       ELSE [r1 EXCEPT !.lastError = outcome, !.pc = "sleep"]

\* the end of the pause: delay *= backoffMultiplier, attempt++
retryWake(r) == [r EXCEPT !.pc = "attempt", !.delay = @ * 2, !.attempt = @ + 1]

RetryFrame ==
  UNCHANGED <<now, store, users, isRunning, botInstance, circuitBreakers, clockMs, calls, callStats,
              outcomes, msg, edit, faultVars, jobs, timers, timerSeq, tasks, ticks, lastPollAt, stats,
              failures, userOps, histVars>>

RetryStart(maxRetries) ==
  /\ retry.pc \in {"idle", "returned", "thrown"}
  /\ retry' = retryOperation(maxRetries)
  /\ RetryFrame

RetryAttempt(outcome) ==
  /\ retry.pc = "attempt"
  /\ retry' = retryAttempt(retry, outcome)
  /\ RetryFrame

RetryWake ==
  /\ retry.pc = "sleep"
  /\ retry' = retryWake(retry)
  /\ RetryFrame

NextRetryOperation ==
  \/ \E maxRetries \in 1..MaxRetriesArg : RetryStart(maxRetries)
  \/ \E outcome \in ErrorCodes \cup {Resolved} : RetryAttempt(outcome)
  \/ RetryWake

\* --------------------------------------------------- safeEditMessageText
\* A text is a sequence of characters.
Texts == {<<"a", " ", "b">>, <<"a", " ", " ", "b">>, <<"c">>}

\* reply_markup: "none" stands for no reply_markup
Markups == {"none", "k1"}

RECURSIVE TrimLeft(_)
TrimLeft(t) == IF t # <<>> /\ t[1] = " " THEN TrimLeft(Tail(t)) ELSE t

RECURSIVE TrimRight(_)
TrimRight(t) == IF t # <<>> /\ t[Len(t)] = " " THEN TrimRight(SubSeq(t, 1, Len(t) - 1)) ELSE t

RECURSIVE CollapseSpaces(_)
CollapseSpaces(t) ==
  IF Len(t) <= 1 THEN t
  ELSE IF t[1] = " " /\ t[2] = " " THEN CollapseSpaces(Tail(t))
  ELSE <<t[1]>> \o CollapseSpaces(Tail(t))

\* text.trim().replace(/\s+/g, ' ')
Normalize(t) == CollapseSpaces(TrimRight(TrimLeft(t)))

NoCache == [text |-> <<>>, markup |-> "unset"]

\* cachedContent?.text?.trim().replace(/\s+/g, ' ') || ''
NormalizedCachedText(cache) == IF cache = NoCache THEN <<>> ELSE Normalize(cache.text)

isTextDifferent(ctx, cache, newText) ==
  /\ Normalize(newText) # Normalize(ctx.text)
  /\ Normalize(newText) # NormalizedCachedText(cache)

\* options.reply_markup && JSON.stringify(options.reply_markup) !== JSON.stringify(currentMarkup)
isMarkupDifferent(ctx, markup) == markup # "none" /\ markup # ctx.markup

\* the edit is skipped
SkipsEdit(ctx, cache, newText, markup, forceEdit) ==
  ~forceEdit /\ ~isTextDifferent(ctx, cache, newText) /\ ~isMarkupDifferent(ctx, markup)

Content(text, markup) == [text |-> text, markup |-> markup]

\* the cache entry written when the edit is skipped or has succeeded
CacheAfterEdit(ctx, newText, markup) ==
  Content(newText, IF markup # "none" THEN markup ELSE ctx.markup)

\* handleEditError writing no cache entry on "message is not modified"
CacheNotModifiedKept(newText, markup) == NoCache

\* the cache entry written by handleEditError on "message is not modified"
CacheNotModified(newText, markup) == Content(newText, markup)

FirstMessage ==
  [shown |-> Content(<<"a", " ", "b">>, "k1"), ctx |-> Content(<<"a", " ", "b">>, "k1"),
   cache |-> NoCache, replies |-> 0]

NoEdit == [pc |-> "idle", ctx |-> Content(<<>>, "none"), text |-> <<>>, markup |-> "none",
           forceEdit |-> FALSE, net |-> 0, result |-> "none", shown0 |-> Content(<<>>, "none"),
           trail |-> <<>>]

EditFrame ==
  UNCHANGED <<now, store, users, isRunning, botInstance, circuitBreakers, clockMs, calls, callStats,
              outcomes, retry, faultVars, jobs, timers, timerSeq, tasks, ticks, lastPollAt, stats,
              failures, userOps, histVars>>

\* an update for the message arrives: its context carries what the message shows
ReceiveUpdate ==
  /\ edit.pc \in {"idle", "done"}
  /\ msg.ctx # msg.shown
  /\ msg' = [msg EXCEPT !.ctx = msg.shown]
  /\ UNCHANGED edit
  /\ EditFrame

\* safeEditMessageText(ctx, newText, options, forceEdit) up to the await of
\* the edit call, or to its return when the edit is skipped
SafeEditStart(newText, markup, forceEdit) ==
  /\ edit.pc \in {"idle", "done"}
  /\ LET call == [pc |-> "editing", ctx |-> msg.ctx, text |-> newText, markup |-> markup,
                  forceEdit |-> forceEdit, net |-> 0, result |-> "none", shown0 |-> msg.shown,
                  trail |-> <<>>]
     IN  IF SkipsEdit(msg.ctx, msg.cache, newText, markup, forceEdit)
         THEN /\ msg' = [msg EXCEPT !.cache = CacheAfterEdit(msg.ctx, newText, markup)]
              /\ edit' = [call EXCEPT !.pc = "done", !.result = "true"]
         ELSE /\ edit' = call
              /\ UNCHANGED msg
  /\ EditFrame

\* what editMessageText can answer: the edit is applied only when it changes
\* the message, and "message is not modified" comes only when it does not
EditErrors == {"notModified", "notFound", "cantParse", "badRequest", "forbidden", "rateLimited",
               "serverError"}

ApiAllows(outcome, text, markup) ==
  /\ outcome = "ok" => Content(text, markup) # msg.shown
  /\ outcome = "notModified" => Content(text, markup) = msg.shown

\* fallbackToReply answering true whatever ctx.reply did
DoneReportingSuccess(result, ev) ==
  [edit EXCEPT !.pc = "done", !.result = "true", !.trail = Append(@, ev)]

Done(result, ev) == [edit EXCEPT !.pc = "done", !.result = result, !.trail = Append(@, ev)]

\* the edit call settles: success, or handleEditError up to its next await
EditSettles(outcome) ==
  /\ edit.pc = "editing"
  /\ edit.net < MaxEditCalls
  /\ ApiAllows(outcome, edit.text, edit.markup)
  /\ LET ev == <<"edit", outcome>>
         e1 == [edit EXCEPT !.net = @ + 1, !.trail = Append(@, ev)]
     IN  CASE outcome = "ok" ->
                /\ msg' = [msg EXCEPT !.shown = Content(edit.text, edit.markup),
                                      !.cache = CacheAfterEdit(edit.ctx, edit.text, edit.markup)]
                /\ edit' = [e1 EXCEPT !.pc = "done", !.result = "true"]
           [] outcome = "notModified" ->
                /\ msg' = [msg EXCEPT !.cache = CacheNotModified(edit.text, edit.markup)]
                /\ edit' = [e1 EXCEPT !.pc = "done", !.result = "true"]
           [] outcome = "cantParse" ->
                /\ edit' = [e1 EXCEPT !.pc = "retrying"]
                /\ UNCHANGED msg
           [] outcome = "forbidden" ->
                /\ edit' = [e1 EXCEPT !.pc = "done", !.result = "false"]
                /\ UNCHANGED msg
           [] outcome = "rateLimited" ->
                /\ edit' = [e1 EXCEPT !.pc = "sleeping"]
                /\ UNCHANGED msg
           [] OTHER ->
                /\ edit' = [e1 EXCEPT !.pc = "replying"]
                /\ UNCHANGED msg
  /\ EditFrame

\* after retry_after seconds: safeEditMessageText(ctx, newText, options, true)
RateLimitWake ==
  /\ edit.pc = "sleeping"
  /\ edit' = [edit EXCEPT !.pc = "editing"]
  /\ UNCHANGED msg
  /\ EditFrame

\* the edit repeated without parse_mode settles
RetryWithoutParseMode(outcome) ==
  /\ edit.pc = "retrying"
  /\ ApiAllows(outcome, edit.text, edit.markup)
  /\ LET e1 == [edit EXCEPT !.net = @ + 1, !.trail = Append(@, <<"retry", outcome>>)]
     IN  IF outcome = "ok"
         THEN /\ msg' = [msg EXCEPT !.shown = Content(edit.text, edit.markup)]
              /\ edit' = [e1 EXCEPT !.pc = "done", !.result = "true"]
         ELSE /\ edit' = [e1 EXCEPT !.pc = "replying"]
              /\ UNCHANGED msg
  /\ EditFrame

\* fallbackToReply: ctx.reply settles
fallbackToReply(ok) ==
  /\ edit.pc = "replying"
  /\ IF ok
     THEN /\ msg.replies < MaxReplies
          /\ msg' = [msg EXCEPT !.replies = @ + 1]
          /\ edit' = Done("true", <<"reply", "ok">>)
     ELSE /\ edit' = Done("false", <<"reply", "failed">>)
          /\ UNCHANGED msg
  /\ EditFrame

\* ---------------------------------------------------------- specification
UserDirectory == <<[isActive |-> TRUE, isBanned |-> FALSE], [isActive |-> TRUE, isBanned |-> TRUE]>>

InitBreakers ==
  /\ retry = NoRetry
  /\ msg = FirstMessage
  /\ edit = NoEdit
  /\ circuitBreakers = NewCircuitBreakers
  /\ clockMs = 0
  /\ calls = {}
  /\ callStats = [started |-> 0, rejected |-> 0, moves |-> 0, last |-> <<"none", "none">>]
  /\ outcomes = [name \in DOMAIN NewCircuitBreakers |-> <<>>]

\* the service after initialize(bot), bot being FALSE for no bot instance
InitSchedulerWith(bot) ==
  /\ InitBreakers
  /\ restarts = 0
  /\ storeFaults = 0
  /\ rejectLog = <<>>
  /\ cleared = {}
  /\ isRunning = TRUE
  /\ botInstance = bot
  /\ jobs = {}
  /\ timers = {}
  /\ timerSeq = 0
  /\ tasks = {}
  /\ ticks = [k \in 1..MaxTicks |-> NoTick]
  /\ stats = [totalExecuted |-> 0, successfulExecutions |-> 0, failedExecutions |-> 0]
  /\ failures = 0
  /\ userOps = 0

InitScheduler == InitSchedulerWith(TRUE)

Init ==
  /\ now = StartInstant
  /\ store = <<>>
  /\ users = UserDirectory
  /\ lastPollAt = StartInstant - 1
  /\ parentOf = <<>>
  /\ sends = <<>>
  /\ softDeleted = {}
  /\ lastSnooze = <<>>
  /\ InitScheduler

Leads == {-1, 2}
SnoozeDurations == {"1hour"}

\* the steps of executeReminder for a reminder that is not recurring
DeliveryStep(t) ==
  \/ SendSucceeds(t)
  \/ \E class \in ErrorClasses : SendFails(t, class)
  \/ CatchFailure(t)
  \/ HandleCompletion(t)
  \/ FinishExecution(t)

TaskStep(t) ==
  \/ DeliveryStep(t)
  \/ CompleteFired(t)

UserStep(rid) ==
  \/ SnoozeCallback(rid)
  \/ \E d \in SnoozeDurations : SnoozeCommand(rid, d)
  \/ CompleteCallback(rid)
  \/ CompleteCommand(rid)
  \/ DeleteConfirmation(rid)
  \/ DeleteCallback(rid)

Next ==
  \/ \E lead \in Leads, uid \in DOMAIN UserDirectory :
       CreateReminder(uid, lead, FALSE, "none", 1, 0, "normal", "Asia/Riyadh")
  \/ \E tm \in timers : TimerFires(tm)
  \/ PollTick
  \/ \E k \in 1..MaxTicks : TickBatch(k)
  \/ \E t \in tasks : DeliveryStep(t)
  \/ \E rid \in Ids : UserStep(rid)
  \/ \E t \in ClockTargets : ClockAdvance(t)

Spec == Init /\ [][Next]_vars

\* ------------------------------------------------- the scheduler restarted
\* The process starts over a collection that already holds reminders: the
\* timers and the invocations of the previous process are gone, the stored
\* records are whatever the handlers left.
StoredSchedules == {StartInstant - 1, StartInstant + 2}

StoredBase ==
  {NewReminder(1, s, s, FALSE, "none", 1, 0, 0, "normal", "Asia/Riyadh") : s \in StoredSchedules}

StoredRecords ==
  UNION {{ r,
           snooze(r, CallbackSnoozeMinutes, StartInstant - 5),
           snooze(r, parseInt("1hour"), StartInstant - 5),
           complete(r, StartInstant - 1),
           [r EXCEPT !.isActive = FALSE] } : r \in StoredBase}

StoredCount == 2

InitRestart ==
  /\ now = StartInstant
  /\ store \in [1..StoredCount -> StoredRecords]
  /\ users = UserDirectory
  /\ lastPollAt = StartInstant - 1
  /\ parentOf = [i \in 1..StoredCount |-> 0]
  /\ sends = [i \in 1..StoredCount |-> <<>>]
  /\ softDeleted = {i \in 1..StoredCount : ~store[i].isActive /\ ~store[i].isCompleted}
  /\ lastSnooze = [i \in 1..StoredCount |->
                     IF store[i].isSnoozed
                     THEN [at |-> StartInstant - 5, minutes |-> store[i].snoozeUntil - (StartInstant - 5)]
                     ELSE [at |-> -1, minutes |-> 0]]
  /\ InitScheduler

NextRestart ==
  \/ PollTick
  \/ \E k \in 1..MaxTicks : TickBatch(k)
  \/ \E t \in tasks : DeliveryStep(t)
  \/ \E t \in ClockTargets : ClockAdvance(t)

SpecRestart == InitRestart /\ [][NextRestart]_vars

\* The same restart with the cron job firing minute after minute: the next
\* minute comes while a reminder is still due after the tick of this one.
NextMinute ==
  /\ lastPollAt = now
  /\ tasks = {} /\ \A k \in 1..MaxTicks : ~ticks[k].running
  /\ Len(findReadyToExecute(store, now)) > 0
  /\ now' = now + 1
  /\ UNCHANGED <<store, users, schedVars, jobs, timers, timerSeq, tasks, ticks, lastPollAt,
                 stats, failures, userOps, histVars>>

NextRestartLive ==
  \/ NextRestart
  \/ NextMinute

\* node-cron keeps firing and every promise settles
FairRestart ==
  /\ WF_vars(PollTick)
  /\ WF_vars(\E k \in 1..MaxTicks : TickBatch(k))
  /\ WF_vars(\E t \in tasks : DeliveryStep(t))
  /\ WF_vars(NextMinute)

SpecRestartLive == InitRestart /\ [][NextRestartLive]_vars /\ FairRestart

\* ------------------------------------------------------ recurring reminders
\* The collection holds one recurring reminder that is due when the process
\* starts, or is empty and the user creates a recurring reminder through
\* /remind (interval 1, no maximum).  Successors follow from the firings.
\* The periods are days and longer, so the clock moves on only between the
\* invocations.
RecurringPatterns == {"daily", "weekly", "monthly"}
RecurringIntervals == {1, 2}
RecurringMaxima == {0, 1, 3}

RecurringRecords ==
  {NewReminder(1, StartInstant - 1, StartInstant - 1, TRUE, pat, ival, maxRec, 0, "normal", tz) :
     pat \in RecurringPatterns, ival \in RecurringIntervals, maxRec \in RecurringMaxima, tz \in Zones}

\* no cron tick and no executeReminder is in flight
Quiescent == tasks = {} /\ \A k \in 1..MaxTicks : ~ticks[k].running

InitRecurring ==
  /\ now = StartInstant
  /\ \/ store = <<>>
     \/ \E r \in RecurringRecords : store = <<r>>
  /\ users = UserDirectory
  /\ lastPollAt = StartInstant - 1
  /\ parentOf = [i \in DOMAIN store |-> 0]
  /\ sends = [i \in DOMAIN store |-> <<>>]
  /\ softDeleted = {}
  /\ lastSnooze = [i \in DOMAIN store |-> [at |-> -1, minutes |-> 0]]
  /\ InitScheduler

NextRecurring ==
  \/ \E lead \in Leads, pat \in RecurringPatterns, tz \in Zones :
       CreateReminder(1, lead, TRUE, pat, 1, 0, "normal", tz)
  \/ \E tm \in timers : TimerFires(tm)
  \/ PollTick
  \/ \E k \in 1..MaxTicks : TickBatch(k)
  \/ \E t \in tasks : TaskStep(t)
  \/ \E t \in ClockTargets : Quiescent /\ ClockAdvance(t)

SpecRecurring == InitRecurring /\ [][NextRecurring]_vars

\* ------------------------------------------------ restarts and store faults
\* The process stops and starts again: the collection stays, the timers,
\* the invocations in flight and the counters of the old process are gone.
ProcessRestart ==
  /\ restarts < MaxRestarts
  /\ restarts' = restarts + 1
  /\ tasks' = {}
  /\ ticks' = [k \in 1..MaxTicks |-> NoTick]
  /\ timers' = {}
  /\ jobs' = {}
  /\ stats' = [totalExecuted |-> 0, successfulExecutions |-> 0, failedExecutions |-> 0]
  /\ UNCHANGED <<now, store, users, isRunning, botInstance, breakerVars, storeFaults, rejectLog, cleared,
                 timerSeq,
                 lastPollAt, failures, userOps, histVars>>

\* A save inside handleReminderCompletion throws: the catch logs the error
\* and executeReminder goes on as after a completion.
CompletionFails(t) ==
  /\ t \in tasks /\ t.pc \in {"completion", "complete"}
  /\ storeFaults < MaxStoreFaults
  /\ storeFaults' = storeFaults + 1
  /\ tasks' = Replace(t, [t EXCEPT !.pc = "finish"])
  /\ UNCHANGED <<now, store, users, isRunning, botInstance, breakerVars, restarts, rejectLog, cleared, jobs,
                 timers,
                 timerSeq, ticks, lastPollAt, stats, failures, userOps, histVars>>

\* The save of the 'failed' entry in the catch of executeReminder throws:
\* executeReminder rejects before its counters are reached.
CatchFails(t) ==
  /\ t \in tasks /\ t.pc = "catch"
  /\ storeFaults < MaxStoreFaults
  /\ storeFaults' = storeFaults + 1
  /\ EndTask(t)
  /\ UNCHANGED <<now, store, users, isRunning, botInstance, breakerVars, restarts, rejectLog, cleared,
                 timers, timerSeq, ticks, lastPollAt, stats, failures, userOps, histVars>>

FaultRecords ==
  {NewReminder(1, StartInstant - 1, StartInstant - 1, rec, pat, 1, 0, 0, "normal", "Asia/Riyadh") :
     rec \in BOOLEAN, pat \in {"daily"}}

InitFaults ==
  /\ now = StartInstant
  /\ \E r \in FaultRecords : store = <<r>>
  /\ users = UserDirectory
  /\ lastPollAt = StartInstant - 1
  /\ parentOf = <<0>>
  /\ sends = <<(<<>>)>>
  /\ softDeleted = {}
  /\ lastSnooze = <<[at |-> -1, minutes |-> 0]>>
  /\ InitScheduler

NextFaults ==
  \/ PollTick
  \/ \E k \in 1..MaxTicks : TickBatch(k)
  \/ \E t \in tasks : TaskStep(t)
  \/ \E t \in tasks : CompletionFails(t)
  \/ \E t \in tasks : CatchFails(t)
  \/ ProcessRestart
  \/ NextMinute
  \/ \E t \in ClockTargets : Quiescent /\ ClockAdvance(t)

SpecFaults == InitFaults /\ [][NextFaults]_vars

\* the next minute begins while the tick of this minute is still under way
\* and none of the messages it sent has been answered: the cron callback is
\* fired every minute whether or not the last one returned
MinuteElapsesBefore(limit) ==
  /\ lastPollAt = now
  /\ tasks # {} /\ \A t \in tasks : t.pc = "sending"
  /\ now < limit
  /\ now' = now + 1
  /\ UNCHANGED <<store, users, schedVars, jobs, timers, timerSeq, tasks, ticks, lastPollAt,
                 stats, failures, userOps, histVars>>

MinuteElapses == MinuteElapsesBefore(StartInstant + BatchMinutes)

\* ----------------------------------------------- more than one batch is due
\* The scheduler starts with BatchLoad overdue reminders in the store.
BatchRecord ==
  NewReminder(1, StartInstant - 1, StartInstant - 1, FALSE, "none", 1, 0, 0, "normal", "Asia/Riyadh")

InitBatch ==
  /\ now = StartInstant
  /\ store = [i \in 1..BatchLoad |-> BatchRecord]
  /\ users = UserDirectory
  /\ lastPollAt = StartInstant - 1
  /\ parentOf = [i \in 1..BatchLoad |-> 0]
  /\ sends = [i \in 1..BatchLoad |-> <<>>]
  /\ softDeleted = {}
  /\ lastSnooze = [i \in 1..BatchLoad |-> [at |-> -1, minutes |-> 0]]
  /\ InitScheduler

\* the pending deliveries settle in the order of their reminders, after the
\* cron callback of the minute has run
InTurn(t) == lastPollAt = now /\ \A u \in tasks : u.rid >= t.rid

NextBatch ==
  \/ PollTick
  \/ \E k \in 1..MaxTicks : TickBatch(k)
  \/ \E t \in tasks : InTurn(t) /\ DeliveryStep(t)
  \/ MinuteElapses

SpecBatch == InitBatch /\ [][NextBatch]_vars

\* ------------------------------------------------ a send that keeps failing
RetryPriorities == {"low", "normal", "high", "urgent"}

RetryRecords ==
  {NewReminder(1, StartInstant - 1, StartInstant - 1, FALSE, "none", 1, 0, 0, prio, "Asia/Riyadh") :
     prio \in RetryPriorities}

InitRetry ==
  /\ now = StartInstant
  /\ \E r \in RetryRecords : store = <<r>>
  /\ users = UserDirectory
  /\ lastPollAt = StartInstant - 1
  /\ parentOf = <<0>>
  /\ sends = <<(<<>>)>>
  /\ softDeleted = {}
  /\ lastSnooze = <<[at |-> -1, minutes |-> 0]>>
  /\ InitScheduler

RetryStep(t) ==
  \/ SendSucceeds(t)
  \/ \E class \in ErrorClasses : SendRejects(t, class, MaxAttempts)
  \/ CatchFailure(t)
  \/ HandleCompletion(t)
  \/ FinishExecution(t)

NextRetry ==
  \/ PollTick
  \/ \E k \in 1..MaxTicks : TickBatch(k)
  \/ \E t \in tasks : RetryStep(t)
  \/ NextMinute

SpecRetry == InitRetry /\ [][NextRetry]_vars

\* ------------------------------------ a monthly reminder set at a month's end
\* The scheduler starts, after an outage, with a recurring reminder that was
\* due on 2025-01-31 at the time of day of the start, less a minute.
MonthEndInstant == YMDToDay(2025, 1, 31) * MinutesPerDay + 359

MonthEndRecords ==
  {NewReminder(1, MonthEndInstant, MonthEndInstant, TRUE, pat, 1, 0, 0, "normal", tz) :
     pat \in {"weekly", "monthly"}, tz \in Zones}

InitMonthEnd ==
  /\ now = StartInstant
  /\ \E r \in MonthEndRecords : store = <<r>>
  /\ users = UserDirectory
  /\ lastPollAt = StartInstant - 1
  /\ parentOf = <<0>>
  /\ sends = <<(<<>>)>>
  /\ softDeleted = {}
  /\ lastSnooze = <<[at |-> -1, minutes |-> 0]>>
  /\ InitScheduler

NextMonthEnd ==
  \/ PollTick
  \/ \E k \in 1..MaxTicks : TickBatch(k)
  \/ \E t \in tasks : TaskStep(t)
  \/ NextMinute
  \/ \E t \in ClockTargets : Quiescent /\ ClockAdvance(t)

SpecMonthEnd == InitMonthEnd /\ [][NextMonthEnd]_vars

\* ------------------------------------------- a reminder with a long history
\* The scheduler starts with a reminder whose sends have failed before: each
\* failed send has left two entries.
FailedBefore == [i \in 1..HistoryLoad |-> [status |-> "failed", error |-> "transient"]]

InitHistory ==
  /\ now = StartInstant
  /\ \E r \in RetryRecords : store = <<[r EXCEPT !.executionHistory = FailedBefore]>>
  /\ users = UserDirectory
  /\ lastPollAt = StartInstant - 1
  /\ parentOf = <<0>>
  /\ sends = <<(<<>>)>>
  /\ softDeleted = {}
  /\ lastSnooze = <<[at |-> -1, minutes |-> 0]>>
  /\ InitScheduler

HistoryStep(t) ==
  \/ SendSucceeds(t)
  \/ \E class \in ErrorClasses : SendRejects(t, class, MaxHistoryFailures)
  \/ CatchFailure(t)
  \/ HandleCompletion(t)
  \/ FinishExecution(t)

NextHistory ==
  \/ PollTick
  \/ \E k \in 1..MaxTicks : TickBatch(k)
  \/ \E t \in tasks : HistoryStep(t)
  \/ NextMinute
  \/ MinuteElapses

SpecHistory == InitHistory /\ [][NextHistory]_vars

\* ------------------------------------------- stored reminders by priority
PrioritySchedules == {StartInstant - 1, StartInstant + 2}

PriorityRecords ==
  {NewReminder(1, s, s, FALSE, "none", 1, 0, 0, prio, "Asia/Riyadh") :
     s \in PrioritySchedules, prio \in RetryPriorities}

InitPriority ==
  /\ now = StartInstant
  /\ store \in [1..StoredCount -> PriorityRecords]
  /\ users = UserDirectory
  /\ lastPollAt = StartInstant - 1
  /\ parentOf = [i \in 1..StoredCount |-> 0]
  /\ sends = [i \in 1..StoredCount |-> <<>>]
  /\ softDeleted = {}
  /\ lastSnooze = [i \in 1..StoredCount |-> [at |-> -1, minutes |-> 0]]
  /\ InitScheduler

SpecPriority == InitPriority /\ [][NextRestart]_vars

\* ------------------------------------------- snoozing a stored reminder
\* One stored reminder that is due, the cron job firing minute after minute
\* and the user snoozing it with the button or with /snooze.
NextSnooze ==
  \/ PollTick
  \/ \E k \in 1..MaxTicks : TickBatch(k)
  \/ \E t \in tasks : DeliveryStep(t)
  \/ \E rid \in Ids : SnoozeCallback(rid)
  \/ \E rid \in Ids, d \in SnoozeDurations : SnoozeCommand(rid, d)
  \/ NextMinute
  \/ \E t \in ClockTargets : Quiescent /\ ClockAdvance(t)

FairSnooze ==
  /\ FairRestart
  /\ WF_vars(\E t \in ClockTargets : Quiescent /\ ClockAdvance(t))

SpecSnooze == InitRetry /\ [][NextSnooze]_vars /\ FairSnooze

\* ------------------------------------------ a scheduler without its bot
\* initialize() is called with its default argument and the bot instance
\* is handed over later by setBotInstance.
setBotInstance(bot) ==
  /\ botInstance # bot
  /\ botInstance' = bot
  /\ UNCHANGED <<now, store, users, isRunning, breakerVars, faultVars, jobs, timers, timerSeq,
                 tasks, ticks, lastPollAt, stats, failures, userOps, histVars>>

InitNoBot ==
  /\ now = StartInstant
  /\ \E r \in FaultRecords : store = <<r>>
  /\ users = UserDirectory
  /\ lastPollAt = StartInstant - 1
  /\ parentOf = <<0>>
  /\ sends = <<(<<>>)>>
  /\ softDeleted = {}
  /\ lastSnooze = <<[at |-> -1, minutes |-> 0]>>
  /\ InitSchedulerWith(FALSE)

NextNoBot ==
  \/ PollTick
  \/ \E k \in 1..MaxTicks : TickBatch(k)
  \/ \E t \in tasks : TaskStep(t)
  \/ setBotInstance(TRUE)
  \/ NextMinute
  \/ \E t \in ClockTargets : Quiescent /\ ClockAdvance(t)

SpecNoBot == InitNoBot /\ [][NextNoBot]_vars

\* ------------------------------------------------- timers of long delays
\* "in 2 minutes", and delays at and just above the limit of setTimeout
\* ("in 30 days" lies above it as well)
\* start(): the cron tasks are started unless the service is running
start ==
  /\ isRunning' = TRUE
  /\ UNCHANGED <<now, store, users, botInstance, breakerVars, faultVars, jobs, timers, timerSeq,
                 tasks, ticks, lastPollAt, stats, failures, userOps, histVars>>

\* stop(): the cron tasks are stopped unless the service is stopped already
stop ==
  /\ isRunning' = FALSE
  /\ UNCHANGED <<now, store, users, botInstance, breakerVars, faultVars, jobs, timers, timerSeq,
                 tasks, ticks, lastPollAt, stats, failures, userOps, histVars>>

NextStop ==
  \/ \E lead \in Leads :
       CreateReminder(1, lead, FALSE, "none", 1, 0, "normal", "Asia/Riyadh")
  \/ \E tm \in timers : TimerFires(tm)
  \/ PollTick
  \/ \E k \in 1..MaxTicks : TickBatch(k)
  \/ \E t \in tasks : DeliveryStep(t)
  \/ \E t \in ClockTargets : ClockAdvance(t)
  \/ start
  \/ stop

SpecStop == Init /\ [][NextStop]_vars

TimerLeads == {2, MaxTimeoutMinutes, MaxTimeoutMinutes + 1}

NextTimer ==
  \/ \E lead \in TimerLeads, uid \in DOMAIN UserDirectory :
       CreateReminder(uid, lead, FALSE, "none", 1, 0, "normal", "Asia/Riyadh")
  \/ \E tm \in timers : TimerFires(tm)
  \/ PollTick
  \/ \E k \in 1..MaxTicks : TickBatch(k)
  \/ \E t \in tasks : DeliveryStep(t)
  \/ \E t \in ClockTargets : ClockAdvance(t)

SpecTimer == Init /\ [][NextTimer]_vars

SpecRetryOperation == Init /\ [][NextRetryOperation]_vars

NextEdit ==
  \/ ReceiveUpdate
  \/ \E newText \in Texts, markup \in Markups, forceEdit \in BOOLEAN :
       SafeEditStart(newText, markup, forceEdit)
  \/ \E outcome \in EditErrors \cup {"ok"} : EditSettles(outcome)
  \/ RateLimitWake
  \/ \E outcome \in {"ok", "cantParse"} : RetryWithoutParseMode(outcome)
  \/ \E ok \in BOOLEAN : fallbackToReply(ok)

SpecEdit == Init /\ [][NextEdit]_vars

\* -------------------------------------------------- circuit breaker calls
\* handleGlobalError runs its recovery through circuitBreaker.execute; the
\* handlers of concurrent updates share the breakers.
reminderVars == <<now, store, users, isRunning, botInstance, jobs, timers, timerSeq, tasks,
                  ticks, lastPollAt, stats, failures, userOps, histVars, faultVars, auxVars>>

Callers == 1..MaxCallers

\* the last threshold operations that settled on the breaker all failed
AfterThreshold(name) ==
  /\ Len(outcomes[name]) = circuitBreakers[name].threshold
  /\ \A i \in DOMAIN outcomes[name] : outcomes[name][i] = "fail"

\* ... and the cool-down counted from the last failure has not passed
InCoolDown(name) ==
  /\ AfterThreshold(name)
  /\ clockMs <= circuitBreakers[name].lastFailureTime + circuitBreakers[name].timeout

\* execute(operation) up to the await of the operation
ExecuteCall(c, name) ==
  LET cb == circuitBreakers[name] IN
  /\ \A x \in calls : x.caller # c
  /\ callStats.started < MaxCalls
  /\ IF Admission(cb, clockMs) = "reject"
     THEN /\ callStats' = [callStats EXCEPT !.started = @ + 1, !.rejected = @ + 1]
          /\ UNCHANGED <<circuitBreakers, calls>>
     ELSE /\ callStats' = [callStats EXCEPT !.started = @ + 1]
          /\ circuitBreakers' = [circuitBreakers EXCEPT ![name] = AfterAdmission(cb, clockMs)]
          /\ calls' = calls \cup {[caller |-> c, name |-> name,
                                    trial |-> cb.state # "CLOSED",
                                    cool |-> InCoolDown(name)]}
  /\ UNCHANGED <<reminderVars, clockMs, outcomes>>

Settle(x, outcome) ==
  /\ calls' = calls \ {x}
  /\ outcomes' = [outcomes EXCEPT ![x.name] =
                    LastN(Append(@, outcome), circuitBreakers[x.name].threshold)]

\* what settled last: an operation of a CLOSED breaker or the trial of a
\* HALF_OPEN one, and how
LastSettled(name, outcome) ==
  IF circuitBreakers[name].state = "HALF_OPEN" THEN <<"trial", outcome>> ELSE <<"call", outcome>>

\* the operation resolves: onSuccess
OperationSucceeds(x) ==
  /\ x \in calls
  /\ circuitBreakers' = [circuitBreakers EXCEPT ![x.name] = onSuccess(@)]
  /\ Settle(x, "ok")
  /\ callStats' = [callStats EXCEPT !.last = LastSettled(x.name, "ok")]
  /\ UNCHANGED <<reminderVars, clockMs>>

\* the operation rejects: onFailure, and the error is thrown on
OperationFails(x) ==
  /\ x \in calls
  /\ circuitBreakers' = [circuitBreakers EXCEPT ![x.name] = onFailure(@, clockMs)]
  /\ Settle(x, "fail")
  /\ callStats' = [callStats EXCEPT !.last = LastSettled(x.name, "fail")]
  /\ UNCHANGED <<reminderVars, clockMs>>

\* time passes
ClockMsAdvance(d) ==
  /\ callStats.moves < MaxClockMoves
  /\ clockMs' = clockMs + d
  /\ callStats' = [callStats EXCEPT !.moves = @ + 1]
  /\ UNCHANGED <<reminderVars, circuitBreakers, calls, outcomes>>

BreakerNames == {"telegram"}
ClockStepsMs == {1, NewCircuitBreakers.telegram.timeout}

NextBreaker ==
  \/ \E c \in Callers, name \in BreakerNames : ExecuteCall(c, name)
  \/ \E x \in calls : OperationSucceeds(x)
  \/ \E x \in calls : OperationFails(x)
  \/ \E d \in ClockStepsMs : ClockMsAdvance(d)

SpecBreaker == Init /\ [][NextBreaker]_vars

\* ------------------------------------------------------------------ claims
\* two successful sends a and b of one reminder, both started while the
\* stored record was active and not completed, with no snooze between them
SameRound(a, b) == a.live /\ b.live /\ a.epoch = b.epoch

\* C1: an active, not completed reminder is never sent twice for the same
\* scheduled time by the poll ticks and its timer, unless it was snoozed
\* between the two deliveries.
NoDoubleDispatch ==
  \A rid \in Ids : \A i, j \in DOMAIN sends[rid] :
    i < j => ~SameRound(sends[rid][i], sends[rid][j])
\* the cron tick k has started and settled every executeReminder of every batch
TickSettled(k) ==
  /\ ticks[k].running
  /\ ticks[k].next > Len(ticks[k].batches)
  /\ \A t \in tasks : t.by # By("poll", k)

\* the reminder rid was handed to the Notifier by tick k and the send succeeded
DeliveredBy(k, rid) ==
  /\ rid \in DOMAIN ticks[k].docs
  /\ ~ticks[k].docs[rid].isRecurring
  /\ UserOk(ticks[k].docs[rid].userId)
  /\ rid \notin ticks[k].failed

\* C2: a poll tick whose sends succeed calls sendMessage exactly once for a
\* due non-recurring reminder of an active, not banned owner, and leaves the
\* reminder completed and inactive.
PollTickDeliversOnce ==
  \A k \in 1..MaxTicks : TickSettled(k) =>
    \A rid \in DOMAIN ticks[k].docs : DeliveredBy(k, rid) =>
      /\ ticks[k].sentOk[rid] = 1
      /\ store[rid].isCompleted
      /\ ~store[rid].isActive

PollTickDelivered ==
  \E k \in 1..MaxTicks : TickSettled(k) /\ \E rid \in DOMAIN ticks[k].docs :
    DeliveredBy(k, rid) /\ ticks[k].sentOk[rid] = 1 /\ store[rid].isCompleted
\* the condition under which a stored reminder is due at instant t
IsDue(r, t) ==
  /\ r.isActive
  /\ ~r.isCompleted
  /\ r.scheduledTime <= t
  /\ (~r.isSnoozed \/ r.snoozeUntil <= t)

\* the number of positions of the sequence q that hold x
Occurrences(q, x) == Cardinality({i \in DOMAIN q : q[i] = x})

\* C3: findReadyToExecute at the instant now returns every reminder that is
\* active, not completed, scheduled at or before now and not snoozed into
\* the future exactly once, and returns no other reminder; shouldExecute
\* decides the same for each stored reminder.
ReadyExactlyTheDue ==
  LET ready == findReadyToExecute(store, now)
  IN  /\ \A i \in DOMAIN ready : ready[i] \in Ids
      /\ \A rid \in Ids : Occurrences(ready, rid) = IF IsDue(store[rid], now) THEN 1 ELSE 0
      /\ \A rid \in Ids : shouldExecute(store[rid], now) <=> IsDue(store[rid], now)

ReadyMixed ==
  LET ready == findReadyToExecute(store, now)
  IN  /\ Len(ready) = 1
      /\ \E k \in 1..MaxTicks : ticks[k].running /\ ticks[k].next = 1 /\ ticks[k].batches = <<ready>>
      /\ \E rid \in Ids : store[rid].isSnoozed /\ store[rid].snoozeUntil <= now
                            /\ Occurrences(ready, rid) = 1
      /\ \E rid \in Ids : store[rid].isActive /\ ~store[rid].isCompleted
                            /\ store[rid].scheduledTime <= now /\ store[rid].isSnoozed
                            /\ store[rid].snoozeUntil > now
\* C4: the completion step run on a reminder that is already completed
\* changes nothing in its stored record and creates no successor.
CompletionIdempotent ==
  [][\A t \in tasks :
       (t.pc \in {"completion", "complete"} /\ t \notin tasks' /\ store[t.rid].isCompleted)
         => (store'[t.rid] = store[t.rid] /\ Len(store') = Len(store))]_vars

\* the records created by firings of the record p
Successors(p) == {j \in Ids : parentOf[j] = p}

\* the maximum of recurrences has not been reached by the record r
BelowMaximum(r) == r.maxRecurrences = 0 \/ r.recurrenceCount < r.maxRecurrences

\* every executeReminder started for the record p has run to its end
Settled(p) == \A t \in tasks : t.rid # p

\* the length of the period of a daily or weekly reminder, in minutes
PeriodMinutes(r) ==
  r.recurringInterval * MinutesPerDay * (IF r.recurringPattern = "weekly" THEN 7 ELSE 1)

FixedPeriod(r) == r.isRecurring /\ r.recurringPattern \in {"daily", "weekly"}

\* each successful firing of a recurring reminder below its maximum has
\* created one successor, with the next recurrenceCount, and the fired
\* record ends completed
OneSuccessorPerFiring ==
  \A p \in Ids :
    /\ Cardinality(Successors(p)) <= Len(sends[p])
    /\ \A j \in Successors(p) : store[j].recurrenceCount = store[p].recurrenceCount + 1
    /\ (store[p].isRecurring /\ Settled(p) /\ Len(sends[p]) > 0) =>
         /\ store[p].isCompleted
         /\ BelowMaximum(store[p]) => Cardinality(Successors(p)) = Len(sends[p])

FiredInstances == {i \in Ids : Len(sends[i]) > 0}

\* C6: a recurring reminder with maxRecurrences = n leads to exactly n
\* fired instances, the first one included, and to no successor after the
\* n-th.
FiredWithinMaximum ==
  \A i \in Ids : store[i].maxRecurrences # 0 =>
    /\ Cardinality(FiredInstances) <= store[i].maxRecurrences
    /\ Len(store) <= store[i].maxRecurrences
\* the ids findReadyToExecute returns at the instant now
ReadyNow == SeqRange(findReadyToExecute(store, now))

\* the last snooze request for rid was made while the reminder was due
SnoozedWhenDue(rid) ==
  lastSnooze[rid].at # -1 /\ store[rid].scheduledTime <= lastSnooze[rid].at

\* C7: snooze(N) at the instant t on a due reminder sets isSnoozed and
\* snoozeUntil = t + N minutes; findReadyToExecute leaves the reminder out
\* before t + N and returns it from t + N on while it is active and not
\* completed.
SnoozeRoundTrip ==
  \A rid \in Ids : SnoozedWhenDue(rid) =>
    LET until == lastSnooze[rid].at + lastSnooze[rid].minutes
    IN  /\ store[rid].isSnoozed
        /\ store[rid].snoozeUntil = until
        /\ now < until => rid \notin ReadyNow
        /\ (now >= until /\ store[rid].isActive /\ ~store[rid].isCompleted) => rid \in ReadyNow

SnoozeElapsed ==
  \E rid \in Ids : SnoozedWhenDue(rid) /\ now >= store[rid].snoozeUntil /\ rid \in ReadyNow

\* C8: no path starts a delivery of a snoozed reminder before its
\* snoozeUntil, and snoozeUntil is never before the instant of the request.
NoDispatchBeforeSnoozeUntil ==
  /\ \A t \in tasks : ~t.early
  /\ \A rid \in Ids : lastSnooze[rid].at # -1 => store[rid].snoozeUntil >= lastSnooze[rid].at

\* C9: a soft-deleted reminder is never active again and findReadyToExecute
\* never returns it.
SoftDeletedStaysOut ==
  \A rid \in softDeleted : ~store[rid].isActive /\ rid \notin ReadyNow

SoftDeletedAndTouched ==
  \E rid \in softDeleted :
    /\ ~store[rid].isCompleted /\ store[rid].scheduledTime <= now
    /\ \E t \in tasks : t.rid = rid /\ ~t.gone /\ t.pc = "completion"

\* a timer for rid is armed and kept in the registry
ArmedTimer(rid) == \E tm \in timers : tm.rid = rid /\ [id |-> rid, h |-> tm.h] \in jobs

\* C10: once a reminder is soft-deleted through either delete handler, no
\* armed timer is left for it in the registry and no delivery of it is
\* started any more.
DeleteCancelsDispatch ==
  \A rid \in softDeleted :
    /\ ~ArmedTimer(rid)
    /\ \A t \in tasks : t.rid = rid => ~t.gone
\* C11: after 5 consecutive failed calls through the Telegram breaker the
\* breaker is OPEN, and no call made within the cool-down of 30 s reaches
\* the wrapped operation.
OpenAfterThreshold ==
  /\ InCoolDown("telegram") => circuitBreakers.telegram.state = "OPEN"
  /\ \A x \in calls : x.name = "telegram" => ~x.cool

FailedFastInCoolDown ==
  /\ InCoolDown("telegram")
  /\ clockMs = circuitBreakers.telegram.lastFailureTime + circuitBreakers.telegram.timeout
  /\ callStats.rejected > 0

\* a call admitted while the breaker was not CLOSED: a trial call
TrialCalls == {x \in calls : x.trial}

\* C12: once the cool-down of an OPEN breaker has passed, a single trial
\* call reaches the wrapped operation; while it is in flight every other
\* execute call fails fast.
SingleTrialCall == Cardinality(TrialCalls) <= 1
\* an executeReminder started by a cron tick is in flight for rid
PollDispatched(rid) == \E t \in tasks : t.rid = rid /\ t.by.kind = "poll"

\* C13: with no timer armed, every reminder that is active, not completed,
\* not snoozed into the future and past its scheduledTime is dispatched by
\* a later cron tick, as long as the cron job keeps firing.
DueIsPolled ==
  \A rid \in 1..StoredCount :
    (timers = {} /\ jobs = {} /\ IsDue(store[rid], now)) ~> PollDispatched(rid)

PolledAfterRestart ==
  \E rid \in Ids :
    /\ timers = {} /\ jobs = {}
    /\ store[rid].scheduledTime < StartInstant
    /\ PollDispatched(rid)
    /\ Len(store[rid].executionHistory) > 0
\* a delivery of the record rid failed with a transient error and none succeeded
TransientFailed(rid) ==
  /\ sends[rid] = <<>>
  /\ \E i \in DOMAIN store[rid].executionHistory :
       store[rid].executionHistory[i] = [status |-> "failed", error |-> "transient"]

\* the record rid is returned by the query of a cron tick at the instant t
ReturnedAt(rid, t) == \E i \in DOMAIN findReadyToExecute(store, t) : findReadyToExecute(store, t)[i] = rid

\* C15: after a delivery failed with a transient error the failure is in
\* the executionHistory, the reminder is still active and not completed and
\* the query of the next cron tick returns it again; once the sends stop
\* failing it is delivered and completed.
TransientFailureRetried ==
  /\ [](\A rid \in 1..StoredCount :
          TransientFailed(rid) =>
            /\ store[rid].isActive /\ ~store[rid].isCompleted
            /\ ReturnedAt(rid, now + 1))
  /\ \A rid \in 1..StoredCount :
       TransientFailed(rid) ~> (Len(sends[rid]) > 0 /\ store[rid].isCompleted)

DeliveredAfterTransientFailure ==
  \E rid \in Ids :
    /\ \E i \in DOMAIN store[rid].executionHistory :
         store[rid].executionHistory[i] = [status |-> "failed", error |-> "transient"]
    /\ Len(sends[rid]) > 0 /\ store[rid].isCompleted
    /\ lastPollAt > StartInstant

\* the number of sends of the record rid that were rejected
Rejections(rid) == Cardinality({i \in DOMAIN rejectLog : rejectLog[i] = rid})

\* C16: a reminder whose sends were rejected RetryLimit times is abandoned:
\* no later query returns it and no further send is attempted, while its
\* executionHistory is kept.
AbandonedAfterRetryLimit ==
  \A rid \in Ids :
    /\ Rejections(rid) <= RetryLimit
    /\ Rejections(rid) >= RetryLimit => ~ReturnedAt(rid, now)

\* a send of the record rid was rejected with a permanent error
PermanentFailed(rid) ==
  \E i \in DOMAIN store[rid].executionHistory :
    store[rid].executionHistory[i] = [status |-> "failed", error |-> "permanent"]

\* C17: once the executeReminder whose send was rejected with a permanent
\* error has ended, the failure is in the executionHistory, the reminder is
\* soft-deleted (isActive = FALSE) and no query returns it again.
PermanentFailureSoftDeletes ==
  \A rid \in Ids :
    (PermanentFailed(rid) /\ Settled(rid) /\ sends[rid] = <<>>) =>
      (~store[rid].isActive /\ ~ReturnedAt(rid, now))

\* the level of a priority: low < normal < high < urgent
PriorityLevel(prio) ==
  CASE prio = "low" -> 1 [] prio = "normal" -> 2 [] prio = "high" -> 3 [] prio = "urgent" -> 4

\* the reminders a running cron tick got from findReadyToExecute, in order
TickOrder(k) == IF ticks[k].batches = <<>> THEN <<>> ELSE ticks[k].batches[1]

\* C18: the reminders a cron tick got from findReadyToExecute are ordered
\* by priority from urgent down to low and, within a priority, by
\* scheduledTime ascending.
ReadyByPriorityLevel ==
  \A k \in 1..MaxTicks :
    ticks[k].running =>
      \A i, j \in DOMAIN TickOrder(k) :
        i < j =>
          LET a == ticks[k].docs[TickOrder(k)[i]]
              b == ticks[k].docs[TickOrder(k)[j]]
          IN  \/ PriorityLevel(a.priority) > PriorityLevel(b.priority)
              \/ /\ a.priority = b.priority
                 /\ a.scheduledTime <= b.scheduledTime

\* the registry holds no entry and no timer for rid
Unregistered(tm, jb, rid) == (\A x \in tm : x.rid # rid) /\ (\A j \in jb : j.id # rid)

\* what cancelReminder(rid) does besides its returned value
CancelEffect(rid) ==
  /\ cancelReminder(jobs, rid) => Unregistered(timers', jobs', rid)
  /\ ~cancelReminder(jobs, rid) => (jobs' = jobs /\ timers' = timers)

\* C19: cancelReminder(id) returns true exactly when a timer is armed for
\* id; the entry is then removed from the registry and the timer never
\* fires afterwards.  Otherwise it returns false and leaves the registry
\* unchanged.
CancelReportsArmedTimer ==
  /\ [](\A tm \in timers : tm.h \notin cleared)
  /\ [](\A t \in tasks : t.by.kind = "timer" => t.by.n \notin cleared)
  /\ [][\A rid \in Ids :
       DeleteConfirmation(rid) =>
         /\ cancelReminder(jobs, rid) <=> ArmedTimer(rid)
         /\ CancelEffect(rid)]_vars

\* C20: firing a recurring reminder leaves the scheduledTime of every
\* stored record as it was; the next occurrence is a record added to the
\* collection, with the originalScheduledTime of the record that fired.
FiringKeepsScheduledTime ==
  /\ [][/\ Len(store') >= Len(store)
        /\ \A rid \in Ids : store'[rid].scheduledTime = store[rid].scheduledTime]_vars
  /\ [](\A j \in Ids :
          parentOf[j] # 0 =>
            /\ parentOf[j] < j
            /\ store[j].originalScheduledTime = store[parentOf[j]].originalScheduledTime
            /\ store[j].scheduledTime > store[parentOf[j]].scheduledTime)

SuccessorKeepsOrigin ==
  \E j \in Ids :
    /\ parentOf[j] # 0
    /\ store[parentOf[j]].isCompleted /\ Len(sends[parentOf[j]]) > 0
    /\ store[j].scheduledTime # store[j].originalScheduledTime
    /\ store[parentOf[j]].scheduledTime = store[parentOf[j]].originalScheduledTime

\* the user snoozed the record rid, its snoozeUntil has passed and no
\* dispatch started since the snooze has delivered it
SnoozeHasElapsed(rid) ==
  /\ lastSnooze[rid].at >= StartInstant
  /\ store[rid].isSnoozed /\ now >= store[rid].snoozeUntil
  /\ \A i \in DOMAIN sends[rid] : sends[rid][i].epoch < store[rid].snoozeCount

\* a cron tick dispatched the record rid after its last snooze
PolledAfterSnooze(rid) ==
  \E t \in tasks : t.rid = rid /\ t.by.kind = "poll" /\ t.epoch = store[rid].snoozeCount

\* C21: a reminder the user snoozed, with the button of the notification or
\* with /snooze, is dispatched again by a cron tick once its snoozeUntil
\* has passed.
SnoozedIsPolledAgain ==
  \A rid \in 1..1 : SnoozeHasElapsed(rid) ~> PolledAfterSnooze(rid)

NoTimerDispatchBeforeDue ==
  \A t \in tasks : t.by.kind = "timer" => now >= store[t.rid].scheduledTime

\* the breaker rejects a call made at the instant t
FailsFast(cb, t) == Admission(cb, t) = "reject"

\* C24: a trial call of the HALF_OPEN Telegram breaker that succeeds
\* closes it with failureCount 0; one that fails reopens it with the
\* cool-down counted from that failure, and as long as that failure is the
\* last operation to have settled, calls fail fast for the whole cool-down.
TrialSettlesBreaker ==
  /\ [][\A x \in calls :
         (x.name = "telegram" /\ circuitBreakers.telegram.state = "HALF_OPEN") =>
           /\ OperationSucceeds(x) =>
                /\ circuitBreakers'.telegram.state = "CLOSED"
                /\ circuitBreakers'.telegram.failureCount = 0
           /\ OperationFails(x) =>
                /\ circuitBreakers'.telegram.state = "OPEN"
                /\ circuitBreakers'.telegram.lastFailureTime = clockMs
                /\ FailsFast(circuitBreakers'.telegram, clockMs + circuitBreakers.telegram.timeout)
                /\ ~FailsFast(circuitBreakers'.telegram, clockMs + circuitBreakers.telegram.timeout + 1)]_vars
  /\ []((/\ callStats.last = <<"trial", "fail">>
          /\ clockMs <= circuitBreakers.telegram.lastFailureTime + circuitBreakers.telegram.timeout)
         => (/\ circuitBreakers.telegram.state = "OPEN"
             /\ FailsFast(circuitBreakers.telegram, clockMs)))

TrialFailedAndRejected ==
  /\ callStats.last = <<"trial", "fail">>
  /\ callStats.rejected > 0
  /\ clockMs > circuitBreakers.telegram.lastFailureTime
  /\ circuitBreakers.telegram.failureCount > circuitBreakers.telegram.threshold

\* C25: retryOperation invokes the operation at most maxRetries times; an
\* invocation that resolves or that rejects with 400 or 403 is the last
\* one; it returns after the first invocation that resolved and otherwise
\* throws the last error, at a 400 or 403 or once maxRetries invocations
\* were made.
RetryOperationBounded ==
  LET n == Len(retry.log) IN
  /\ n <= retry.maxRetries
  /\ \A i \in 1..(n - 1) : retry.log[i] \notin {Resolved, 400, 403}
  /\ retry.pc = "returned" <=> (n > 0 /\ retry.log[n] = Resolved)
  /\ retry.pc = "thrown" <=>
        (n > 0 /\ retry.log[n] # Resolved /\ (retry.log[n] \in {400, 403} \/ n = retry.maxRetries))
  /\ retry.pc = "thrown" => retry.thrown = retry.log[n]

RetriesExhausted ==
  /\ retry.pc = "thrown" /\ retry.maxRetries = 3
  /\ retry.log = <<429, 500, 429>>

\* the content asked for differs from what the message showed at the call
ContentDiffers(call) ==
  \/ call.text # call.shown0.text
  \/ call.markup # "none" /\ call.markup # call.shown0.markup

\* C26: a safeEditMessageText call without forceEdit has issued the edit
\* call exactly if the new text or the new keyboard differs from what the
\* message showed; with both unchanged it returned true without a call.
EditsExactlyWhenContentDiffers ==
  (edit.pc = "done" /\ ~edit.forceEdit) =>
    /\ edit.net > 0 <=> ContentDiffers(edit)
    /\ ~ContentDiffers(edit) => edit.result = "true"

FailedEdit(ev) == ev[1] \in {"edit", "retry"} /\ ev[2] \notin {"ok", "notModified"}

FallsBackTo == {<<"edit", "notFound">>, <<"edit", "badRequest">>, <<"edit", "serverError">>,
                <<"retry", "cantParse">>}

EditAttemptsBounded ==
  (\A i \in DOMAIN edit.trail : edit.trail[i] = <<"edit", "rateLimited">>) =>
    Len(edit.trail) < MaxEditCalls

\* C30: a due reminder whose owner is inactive or banned is skipped by the
\* poll and by its timer: the step that reaches it sends nothing, changes no
\* stored record and no counter and starts no delivery; such a reminder never
\* has a delivery under way, a sent message or an executionHistory entry,
\* and nothing is counted while every reminder is of such an owner.
InactiveOrBanned(uid) == ~users[uid].isActive \/ users[uid].isBanned

ReachesOnlySkipped(k) ==
  /\ ticks[k].next <= Len(ticks[k].batches)
  /\ \A rid \in SeqRange(ticks[k].batches[ticks[k].next]) :
       InactiveOrBanned(ticks[k].docs[rid].userId)

FailureIsolatedInTick ==
  [][\A k \in 1..MaxTicks :
       ticks[k].running /\ ~ticks'[k].running =>
         \A rid \in DOMAIN ticks[k].docs :
           UserOk(ticks[k].docs[rid].userId) =>
             ticks[k].sentOk[rid] > 0 \/ rid \in ticks[k].failed]_vars

DispatchedAfterFailure ==
  \E k \in 1..MaxTicks :
    /\ ticks[k].running /\ Len(ticks[k].batches) = 2 /\ ticks[k].next = 3
    /\ 1 \in ticks[k].failed
    /\ ticks[k].sentOk[2] > 0
    /\ \A rid \in SeqRange(ticks[k].batches[2]) : ticks[k].sentOk[rid] > 0

\* C32 as stated: at most ConcurrencyLimit deliveries started by the poll are
\* under way at any instant.
PollDeliveriesCapped ==
  Cardinality({t \in tasks : t.by.kind = "poll"}) <= ConcurrencyLimit

\* C33 as stated: totalExecuted is the sum of the other two counters, no
\* counter of a running scheduler decreases, and an executeReminder that
\* attempted the delivery has counted one execution when it ends.
CountersAccountForDispatches ==
  /\ [](stats.totalExecuted = stats.successfulExecutions + stats.failedExecutions)
  /\ [][restarts' = restarts =>
          /\ stats'.totalExecuted >= stats.totalExecuted
          /\ stats'.successfulExecutions >= stats.successfulExecutions
          /\ stats'.failedExecutions >= stats.failedExecutions
          /\ \A t \in tasks :
               (\A u \in tasks' : u.rid # t.rid \/ u.by # t.by) =>
                 stats'.totalExecuted = stats.totalExecuted + 1]_vars

\* C34 as stated: the stored executionHistory of a reminder never holds more
\* than HistoryCap entries.
StoredHistoryCapped ==
  \A rid \in DOMAIN store : Len(store[rid].executionHistory) <= HistoryCap

\* C35 as stated: a breaker that is OPEN stays OPEN and rejects calls as
\* long as its cool-down has not elapsed, whatever calls settle meanwhile.
StaysOpenDuringCoolDown ==
  [][\A name \in DOMAIN circuitBreakers :
       (/\ circuitBreakers[name].state = "OPEN"
        /\ clockMs' - circuitBreakers[name].lastFailureTime <= circuitBreakers[name].timeout)
       => (/\ circuitBreakers'[name].state = "OPEN"
           /\ FailsFast(circuitBreakers'[name], clockMs'))]_vars

\* C36 as stated: the executionHistory of a reminder holds one entry for each
\* delivery attempt that has settled, 'sent' or 'failed' (as long as the cap
\* has not dropped any).
SettledAttempts(rid) ==
  Len(sends[rid]) + Cardinality({i \in DOMAIN rejectLog : rejectLog[i] = rid})

OneEntryPerAttempt ==
  \A rid \in DOMAIN store :
    Len(store[rid].executionHistory) < HistoryCap =>
      Len(store[rid].executionHistory) = SettledAttempts(rid)

\* C37 as stated: a reminder has at most one armed timer, and jobs holds
\* exactly the ids of the reminders that have one.
RegistryMatchesArmedTimers ==
  /\ \A rid \in DOMAIN store : Cardinality({tm \in timers : tm.rid = rid}) <= 1
  /\ {j.id : j \in jobs} = {tm.rid : tm \in timers}

\* C38 as stated: while the service is stopped no delivery is started by a
\* poll tick or by a timer, and start() on a running service and stop() on
\* a stopped one change nothing.
StartedBy(kinds) == {[rid |-> t.rid, by |-> t.by] : t \in {u \in tasks : u.by.kind \in kinds}}

NoDispatchWhileStopped ==
  /\ [][(~isRunning /\ ~isRunning') =>
          StartedBy({"poll", "timer"})' \subseteq StartedBy({"poll", "timer"})]_vars
  /\ [][(isRunning /\ start) => UNCHANGED vars]_vars
  /\ [][(~isRunning /\ stop) => UNCHANGED vars]_vars

RECURSIVE FirstOfChain(_)
FirstOfChain(rid) == IF parentOf[rid] = 0 THEN rid ELSE FirstOfChain(parentOf[rid])

MovedBy(r, k) ==
  IF k = 0 THEN r.scheduledTime
  ELSE calculateNextRecurrence([r EXCEPT !.recurringInterval = k * r.recurringInterval])

ChainKeepsToFirstTime ==
  \A rid \in DOMAIN store :
    LET first == store[FirstOfChain(rid)]
    IN  store[rid].scheduledTime =
          MovedBy(first, store[rid].recurrenceCount - first.recurrenceCount)

\* C14: neither a restart nor a rejected save during a dispatch duplicates
\* a notification: no occurrence has more than one successor, and no
\* reminder is sent again once it was sent and completed.
NoDuplicateAfterFault ==
  /\ [](\A rid \in Ids : Cardinality(Successors(rid)) <= 1)
  /\ [][\A t \in tasks :
         SendSucceeds(t) => ~(store[t.rid].isCompleted /\ sends[t.rid] # <<>>)]_vars

====
